---- MODULE Spec2Model ----
(***************************************************************************)
(* grpc-health-probe: one probe run as a state machine.                    *)
(*                                                                         *)
(* The repository holds several entry points that run the same flow        *)
(*   validation -> credentials -> connect -> Check RPC -> classification   *)
(* and differ in where validation happens, which transport variants exist  *)
(* and which numbers the exit categories have:                             *)
(*   "probe"  : probe(args...)            src/internal/probe/check.go:253  *)
(*   "main"   : init() + main()           src/main.go:61,168               *)
(*   "pkg"    : Check(ctx, config)        src/pkg/grpc-health-probe.go:93  *)
(*   "prober" : NewChecker + checker.Check src/pkg/prober/probe.go:115,122 *)
(*   "part_009": init() + main(), no -http-listen-addr                     *)
(*                                        src/unnamed/part_009:89,302      *)
(*   "internal": Connect, then Check      src/internal/probe/connect.go:26 *)
(*                                        src/internal/probe/check.go:34   *)
(*   "credentials": buildCredentials      src/internal/probe/check.go:222  *)
(* A behaviour is one run of one entry point with one raw configuration    *)
(* (args), against an environment (files, workload endpoint, network,      *)
(* server, interrupts) whose answers are chosen when the code asks.        *)
(*                                                                         *)
(* Spec ranges over every flag combination without -service and            *)
(* -rpc-header; RequestSpec over the command lines that differ in -service *)
(* and -rpc-header; HeaderSpec over parseFlags on any -rpc-header values;  *)
(* SuccessiveSpec over successive calls of probe in one process.           *)
(***************************************************************************)
EXTENDS Integers, Sequences, FiniteSets, TLC

VARIABLES
    variant,      \* which entry point runs
    args,         \* the raw configuration handed to the entry point
    fl,           \* the parsed flag values (var fl Flags / Config)
    pc,           \* position of the main flow
    exitCode,     \* Running until the flow returns / the process exits
    msg,          \* the failure line logged or returned (NoMsg if none)
    endedAt,      \* the step whose return / exit ended the run ("" while running)
    listener,     \* interrupt listener goroutine: "none", "waiting", "done"
    sigQueued,    \* channel c (capacity 1) holds an os.Interrupt
    interrupts,   \* interrupts delivered to the process so far
    ctxCancelled, \* cancel() of the shared context was called
    creds,        \* transport variant put in the dial options
    credCalls,    \* calls of buildCredentials / workloadapi.NewX509Source
    tlsCall,      \* the call of buildCredentials: arguments, file system, result
    spiffeCall,   \* the call of workloadapi.NewX509Source: endpoint, context
    conn,         \* "none", "open", "closed"
    dials,        \* calls of grpc.DialContext
    rpcs,         \* calls of HealthClient.Check
    rpcDeadline,  \* the context of the Check call carries the rpc timeout
    reply,        \* the result of the Check call (NoReply before)
    phases,       \* the phases executed, in order
    now,          \* the clock
    dialErr,      \* what grpc.DialContext returned ("" before)
    dialStart,    \* the clock when dialCtx was made
    dialExpiry,   \* the deadline of dialCtx
    dialCtxErr,   \* dialCtx.Err(): "" while the context is not done
    connectedAt,  \* the clock when the connection became ready
    rpcStart,     \* the clock when the context of the call was made
    rpcExpiry,    \* the deadline of the context of the call, if it has one
    rpcCtxErr,    \* Err() of the context of the call: "" while it is not done
    serverReplies,\* the server answers the call at all
    errKind,      \* internal Check: Go type of the error returned ("none" before)
    calls,        \* calls of the entry point in this process, the running one included
    flBefore,     \* the package variable fl as this call found it
    request,      \* the HealthCheckRequest sent and the metadata of its context
    serves,       \* the server: "*" answers anything, a name is SERVING for that name only
    opts          \* the transport options among the dial options

\* the variables of the clock and of the two bounded contexts
timing == <<now, dialStart, dialExpiry, dialCtxErr, connectedAt, rpcStart, rpcExpiry, rpcCtxErr>>

vars == <<variant, args, fl, pc, exitCode, msg, endedAt, listener, sigQueued, interrupts,
          ctxCancelled, creds, credCalls, tlsCall, spiffeCall, conn, dials, rpcs,
          rpcDeadline, reply, phases, dialErr, serverReplies, errKind, timing,
          calls, flBefore, request, serves, opts>>

----------------------------------------------------------------------------
(* Bounds of the model *)

\* largest duration a timeout flag takes (durations range over -1..MaxDuration)
MaxDuration == 2
\* interrupts the environment sends during one run
MaxInterrupts == 2
\* the horizon of the clock: a connect and a call of the longest duration each
MaxTime == MaxDuration + MaxDuration
\* longest value of an -rpc-header flag, in characters
MaxHeaderLen == 3
\* -rpc-header flags on one command line
MaxHeaders == 2
\* calls of probe in one process
MaxCalls == 2

----------------------------------------------------------------------------
(* Exit categories *)

\* the run has not ended
Running == 0 - 1

\* check.go:112-123 (the same values at main.go:50-59, pkg/grpc-health-probe.go:20-29)
StatusInvalidArguments == 1
StatusConnectionFailure == 2
StatusRPCFailure == 3
StatusUnhealthy == 4
StatusSpiffeFailed == 20

\* pkg/prober/probe.go:33-42 : const ( StatusInvalidArguments = iota; ... )
prober_StatusInvalidArguments == 0
prober_StatusConnectionFailure == prober_StatusInvalidArguments + 1
prober_StatusRPCFailure == prober_StatusConnectionFailure + 1
prober_StatusUnhealthy == prober_StatusRPCFailure + 1

\* os.Exit(1) of log.Fatalf
FatalExit == 1

\* Connect and Check of internal/probe return an error, no exit code
NoExitCode == 0 - 2

Variants == {"probe", "main", "pkg", "prober", "part_009", "internal", "credentials"}
\* entry points that parse a command line and start the interrupt listener
CLIVariants == {"probe", "main", "part_009"}

\* the constant of the package the entry point lives in
InvalidArgumentsOf(v) == IF v = "prober" THEN prober_StatusInvalidArguments ELSE StatusInvalidArguments
ConnectionFailureOf(v) == IF v = "prober" THEN prober_StatusConnectionFailure ELSE StatusConnectionFailure
RPCFailureOf(v) == IF v = "prober" THEN prober_StatusRPCFailure ELSE StatusRPCFailure
UnhealthyOf(v) == IF v = "prober" THEN prober_StatusUnhealthy ELSE StatusUnhealthy

----------------------------------------------------------------------------
(* Configuration *)

Durations == (0 - 1)..MaxDuration
Addrs == {"", "localhost:5000"}
Paths(p) == {"", p}

\* the service names a command line asks about; "" is the server as a whole
Services == {"", "myService"}

\* metadata.MD, a map from keys to lists of values; the nil map and the
\* empty map have no entry
EmptyMD == <<>>

\* type Flags struct (check.go:92-108); Config of the library forms has the
\* same fields without RPCHeaders, GZIP and SPIFFE
FlagValues ==
    [Addr : Addrs, ConnTimeout : Durations, RPCTimeout : Durations,
     TLS : BOOLEAN, TLSNoVerify : BOOLEAN,
     TLSCACert : Paths("ca.pem"), TLSClientCert : Paths("client.pem"),
     TLSClientKey : Paths("client-key.pem"), TLSServerName : Paths("example.com"),
     Verbose : BOOLEAN, SPIFFE : BOOLEAN, Service : Services, RPCHeaders : {EmptyMD}]

\* fl = Flags{} (check.go:127): every field at its zero value
ZeroFlags ==
    [Addr |-> "", ConnTimeout |-> 0, RPCTimeout |-> 0, TLS |-> FALSE,
     TLSNoVerify |-> FALSE, TLSCACert |-> "", TLSClientCert |-> "",
     TLSClientKey |-> "", TLSServerName |-> "", Verbose |-> FALSE, SPIFFE |-> FALSE,
     Service |-> "", RPCHeaders |-> EmptyMD]

\* a raw configuration: the flag values on the command line, the values of
\* the -rpc-header flags in their order, and whether flagSet.Parse fails on
\* it (unknown flag, malformed value).  These are the command lines without
\* -service and without -rpc-header.
ArgSets ==
    [flags : {f \in FlagValues : f.Service = ""}, headers : {<<>>}, parseError : BOOLEAN]

----------------------------------------------------------------------------
(* Messages: a format and its arguments *)

NoMsg == [fmt |-> "", str |-> "", dur |-> 0]
Msg(f, s, d) == [fmt |-> f, str |-> s, dur |-> d]

----------------------------------------------------------------------------
(* -rpc-header *)

\* the characters of a header value: a letter, the separator, white space
HeaderChars == {"k", ":", " "}

\* the strings of at most n characters
RECURSIVE Strings(_)
Strings(n) ==
    IF n = 0 THEN {""}
    ELSE Strings(n - 1) \cup {s \o c : s \in Strings(n - 1), c \in HeaderChars}

\* at most n -rpc-header values of fewer than MaxHeaderLen characters
RECURSIVE ShortHeaderLists(_)
ShortHeaderLists(n) ==
    IF n = 0 THEN {<<>>}
    ELSE ShortHeaderLists(n - 1)
             \cup {Append(l, h) : l \in ShortHeaderLists(n - 1), h \in Strings(MaxHeaderLen - 1)}

\* the command lines with at most n -rpc-header flags: the last value is any
\* string of at most MaxHeaderLen characters, the values before it are shorter
HeaderLists(n) ==
    IF n = 0 THEN {<<>>}
    ELSE {<<>>} \cup {Append(l, h) : l \in ShortHeaderLists(n - 1), h \in Strings(MaxHeaderLen)}

\* strings.Index(s, c): the place of the first c in s, 0 if there is none
Index(s, c) ==
    IF \E i \in 1..Len(s) : SubSeq(s, i, i) = c
    THEN CHOOSE i \in 1..Len(s) :
             /\ SubSeq(s, i, i) = c
             /\ \A j \in 1..(i - 1) : SubSeq(s, j, j) # c
    ELSE 0

\* SplitN with the string cut at the last separator
SplitN2_AtLast(s, sep) ==
    IF Index(s, sep) = 0 THEN <<s>>
    ELSE LET i == CHOOSE i \in 1..Len(s) :
                      /\ SubSeq(s, i, i) = sep
                      /\ \A j \in (i + 1)..Len(s) : SubSeq(s, j, j) # sep
         IN  <<SubSeq(s, 1, i - 1), SubSeq(s, i + 1, Len(s))>>

\* strings.SplitN(s, sep, 2) (check.go:213): s cut at the first sep, or s alone
SplitN2(s, sep) ==
    IF Index(s, sep) = 0 THEN <<s>>
    ELSE <<SubSeq(s, 1, Index(s, sep) - 1), SubSeq(s, Index(s, sep) + 1, Len(s))>>

\* strings.TrimLeftFunc(s, unicode.IsSpace) (check.go:217)
RECURSIVE TrimLeftSpace(_)
TrimLeftSpace(s) ==
    IF Len(s) > 0 /\ SubSeq(s, 1, 1) = " " THEN TrimLeftSpace(SubSeq(s, 2, Len(s))) ELSE s

\* the values of key k in md, none for a key md does not have
Values(md, k) == IF k \in DOMAIN md THEN md[k] ELSE <<>>

\* Append with the value put in place of the values the key has
MDAppend_Overwrites(md, k, v) ==
    [x \in DOMAIN md \cup {k} |-> IF x = k THEN <<v>> ELSE md[x]]

\* s.Append(k, v) of metadata.MD (check.go:218): v goes after the values of k
MDAppend(md, k, v) ==
    [x \in DOMAIN md \cup {k} |-> IF x = k THEN Append(Values(md, k), v) ELSE md[x]]

\* rpcHeaders.Set (check.go:209-220): the map after the call and the error
\* returned (NoMsg for nil)
Set(md, value) ==
    LET parts == SplitN2(value, ":")
    IN  IF Len(parts) # 2
        THEN [md |-> md, err |-> Msg("invalid RPC header, expected 'key: value', got %q", value, 0)]
        ELSE [md |-> MDAppend(md, parts[1], TrimLeftSpace(parts[2])), err |-> NoMsg]

\* flagSet.Parse calls Set for each -rpc-header in turn (check.go:142,147) and
\* stops at the first error
RECURSIVE SetAll(_, _)
SetAll(md, values) ==
    IF values = <<>> THEN [md |-> md, err |-> NoMsg]
    ELSE LET r == Set(md, Head(values))
         IN  IF r.err # NoMsg THEN r ELSE SetAll(r.md, Tail(values))

----------------------------------------------------------------------------
(* Validation *)

\* Faulty variants of Validate, one slip each: the -addr check missing, the
\* no-verify/server-name check missing, two checks in the other order, the
\* key-without-cert check missing.  The properties C3, C6, C8 and C4 fail
\* under them.
Validate_NoAddrCheck(c) ==
    IF c.ConnTimeout <= 0 THEN
        Msg("-connect-timeout must be greater than zero (specified: %v)", "", c.ConnTimeout)
    ELSE IF c.RPCTimeout <= 0 THEN
        Msg("-rpc-timeout must be greater than zero (specified: %v)", "", c.RPCTimeout)
    ELSE IF ~c.TLS /\ c.TLSNoVerify THEN
        Msg("specified -tls-no-verify without specifying -tls", "", 0)
    ELSE IF ~c.TLS /\ c.TLSCACert # "" THEN
        Msg("specified -tls-ca-cert without specifying -tls", "", 0)
    ELSE IF ~c.TLS /\ c.TLSClientCert # "" THEN
        Msg("specified -tls-client-cert without specifying -tls", "", 0)
    ELSE IF ~c.TLS /\ c.TLSServerName # "" THEN
        Msg("specified -tls-server-name without specifying -tls", "", 0)
    ELSE IF c.TLSClientCert # "" /\ c.TLSClientKey = "" THEN
        Msg("specified -tls-client-cert without specifying -tls-client-key", "", 0)
    ELSE IF c.TLSClientCert = "" /\ c.TLSClientKey # "" THEN
        Msg("specified -tls-client-key without specifying -tls-client-cert", "", 0)
    ELSE IF c.TLSNoVerify /\ c.TLSCACert # "" THEN
        Msg("cannot specify -tls-ca-cert with -tls-no-verify (CA cert would not be used)", "", 0)
    ELSE IF c.TLSNoVerify /\ c.TLSServerName # "" THEN
        Msg("cannot specify -tls-server-name with -tls-no-verify (server name would not be used)", "", 0)
    ELSE NoMsg

Validate_NoVerifyWithServerName(c) ==
    IF c.Addr = "" THEN
        Msg("-addr not specified", "", 0)
    ELSE IF c.ConnTimeout <= 0 THEN
        Msg("-connect-timeout must be greater than zero (specified: %v)", "", c.ConnTimeout)
    ELSE IF c.RPCTimeout <= 0 THEN
        Msg("-rpc-timeout must be greater than zero (specified: %v)", "", c.RPCTimeout)
    ELSE IF ~c.TLS /\ c.TLSNoVerify THEN
        Msg("specified -tls-no-verify without specifying -tls", "", 0)
    ELSE IF ~c.TLS /\ c.TLSCACert # "" THEN
        Msg("specified -tls-ca-cert without specifying -tls", "", 0)
    ELSE IF ~c.TLS /\ c.TLSClientCert # "" THEN
        Msg("specified -tls-client-cert without specifying -tls", "", 0)
    ELSE IF ~c.TLS /\ c.TLSServerName # "" THEN
        Msg("specified -tls-server-name without specifying -tls", "", 0)
    ELSE IF c.TLSClientCert # "" /\ c.TLSClientKey = "" THEN
        Msg("specified -tls-client-cert without specifying -tls-client-key", "", 0)
    ELSE IF c.TLSClientCert = "" /\ c.TLSClientKey # "" THEN
        Msg("specified -tls-client-key without specifying -tls-client-cert", "", 0)
    ELSE IF c.TLSNoVerify /\ c.TLSCACert # "" THEN
        Msg("cannot specify -tls-ca-cert with -tls-no-verify (CA cert would not be used)", "", 0)
    ELSE NoMsg

Validate_Reordered(c) ==
    IF c.Addr = "" THEN
        Msg("-addr not specified", "", 0)
    ELSE IF c.ConnTimeout <= 0 THEN
        Msg("-connect-timeout must be greater than zero (specified: %v)", "", c.ConnTimeout)
    ELSE IF c.RPCTimeout <= 0 THEN
        Msg("-rpc-timeout must be greater than zero (specified: %v)", "", c.RPCTimeout)
    ELSE IF ~c.TLS /\ c.TLSNoVerify THEN
        Msg("specified -tls-no-verify without specifying -tls", "", 0)
    ELSE IF c.TLSNoVerify /\ c.TLSCACert # "" THEN
        Msg("cannot specify -tls-ca-cert with -tls-no-verify (CA cert would not be used)", "", 0)
    ELSE IF ~c.TLS /\ c.TLSClientCert # "" THEN
        Msg("specified -tls-client-cert without specifying -tls", "", 0)
    ELSE IF ~c.TLS /\ c.TLSServerName # "" THEN
        Msg("specified -tls-server-name without specifying -tls", "", 0)
    ELSE IF c.TLSClientCert # "" /\ c.TLSClientKey = "" THEN
        Msg("specified -tls-client-cert without specifying -tls-client-key", "", 0)
    ELSE IF c.TLSClientCert = "" /\ c.TLSClientKey # "" THEN
        Msg("specified -tls-client-key without specifying -tls-client-cert", "", 0)
    ELSE IF ~c.TLS /\ c.TLSCACert # "" THEN
        Msg("specified -tls-ca-cert without specifying -tls", "", 0)
    ELSE IF c.TLSNoVerify /\ c.TLSServerName # "" THEN
        Msg("cannot specify -tls-server-name with -tls-no-verify (server name would not be used)", "", 0)
    ELSE NoMsg

Validate_NoKeyWithoutCert(c) ==
    IF c.Addr = "" THEN
        Msg("-addr not specified", "", 0)
    ELSE IF c.ConnTimeout <= 0 THEN
        Msg("-connect-timeout must be greater than zero (specified: %v)", "", c.ConnTimeout)
    ELSE IF c.RPCTimeout <= 0 THEN
        Msg("-rpc-timeout must be greater than zero (specified: %v)", "", c.RPCTimeout)
    ELSE IF ~c.TLS /\ c.TLSNoVerify THEN
        Msg("specified -tls-no-verify without specifying -tls", "", 0)
    ELSE IF ~c.TLS /\ c.TLSCACert # "" THEN
        Msg("specified -tls-ca-cert without specifying -tls", "", 0)
    ELSE IF ~c.TLS /\ c.TLSClientCert # "" THEN
        Msg("specified -tls-client-cert without specifying -tls", "", 0)
    ELSE IF ~c.TLS /\ c.TLSServerName # "" THEN
        Msg("specified -tls-server-name without specifying -tls", "", 0)
    ELSE IF c.TLSClientCert # "" /\ c.TLSClientKey = "" THEN
        Msg("specified -tls-client-cert without specifying -tls-client-key", "", 0)
    ELSE IF c.TLSNoVerify /\ c.TLSCACert # "" THEN
        Msg("cannot specify -tls-ca-cert with -tls-no-verify (CA cert would not be used)", "", 0)
    ELSE IF c.TLSNoVerify /\ c.TLSServerName # "" THEN
        Msg("cannot specify -tls-server-name with -tls-no-verify (server name would not be used)", "", 0)
    ELSE NoMsg

\* The checks after flagSet.Parse in parseFlags (check.go:152-184), in the
\* order of the code; the first failing check returns its error.  The same
\* eleven checks, in the same order and with the same texts, are main.go:89-121
\* (argError), Config.Validate at pkg/grpc-health-probe.go:46-82 and at
\* pkg/prober/probe.go:59-95.  NoMsg is the nil error.
Validate(c) ==
    IF c.Addr = "" THEN
        Msg("-addr not specified", "", 0)
    ELSE IF c.ConnTimeout <= 0 THEN
        Msg("-connect-timeout must be greater than zero (specified: %v)", "", c.ConnTimeout)
    ELSE IF c.RPCTimeout <= 0 THEN
        Msg("-rpc-timeout must be greater than zero (specified: %v)", "", c.RPCTimeout)
    ELSE IF ~c.TLS /\ c.TLSNoVerify THEN
        Msg("specified -tls-no-verify without specifying -tls", "", 0)
    ELSE IF ~c.TLS /\ c.TLSCACert # "" THEN
        Msg("specified -tls-ca-cert without specifying -tls", "", 0)
    ELSE IF ~c.TLS /\ c.TLSClientCert # "" THEN
        Msg("specified -tls-client-cert without specifying -tls", "", 0)
    ELSE IF ~c.TLS /\ c.TLSServerName # "" THEN
        Msg("specified -tls-server-name without specifying -tls", "", 0)
    ELSE IF c.TLSClientCert # "" /\ c.TLSClientKey = "" THEN
        Msg("specified -tls-client-cert without specifying -tls-client-key", "", 0)
    ELSE IF c.TLSClientCert = "" /\ c.TLSClientKey # "" THEN
        Msg("specified -tls-client-key without specifying -tls-client-cert", "", 0)
    ELSE IF c.TLSNoVerify /\ c.TLSCACert # "" THEN
        Msg("cannot specify -tls-ca-cert with -tls-no-verify (CA cert would not be used)", "", 0)
    ELSE IF c.TLSNoVerify /\ c.TLSServerName # "" THEN
        Msg("cannot specify -tls-server-name with -tls-no-verify (server name would not be used)", "", 0)
    ELSE NoMsg

----------------------------------------------------------------------------
(* Credentials *)

\* what the file system answers to buildCredentials
FileSystems == [keyPairLoads : BOOLEAN, caReadable : BOOLEAN, caParses : BOOLEAN]

\* var cfg tls.Config
ZeroTLSConfig ==
    [Certificates |-> FALSE, InsecureSkipVerify |-> FALSE, RootCAs |-> "system", ServerName |-> ""]

\* buildCredentials with the result of AppendCertsFromPEM not looked at
buildCredentials_IgnoresParse(skipVerify, caCerts, clientCert, clientKey, serverName, fs) ==
    LET loadsPair == clientCert # "" /\ clientKey # ""
        keyRead   == IF loadsPair THEN {clientCert, clientKey} ELSE {}
        cfg1      == IF loadsPair THEN [ZeroTLSConfig EXCEPT !.Certificates = TRUE] ELSE ZeroTLSConfig
        named(c)  == IF serverName # "" THEN [c EXCEPT !.ServerName = serverName] ELSE c
    IN  IF loadsPair /\ ~fs.keyPairLoads THEN
            [ok |-> FALSE, err |-> Msg("failed to load tls client cert/key pair. error=%v", "", 0),
             cfg |-> ZeroTLSConfig, read |-> keyRead]
        ELSE IF skipVerify THEN
            [ok |-> TRUE, err |-> NoMsg,
             cfg |-> named([cfg1 EXCEPT !.InsecureSkipVerify = TRUE]), read |-> keyRead]
        ELSE IF caCerts # "" THEN
            IF ~fs.caReadable THEN
                [ok |-> FALSE, err |-> Msg("failed to load root CA certificates from file (%s) error=%v", caCerts, 0),
                 cfg |-> ZeroTLSConfig, read |-> keyRead \cup {caCerts}]
            ELSE
                [ok |-> TRUE, err |-> NoMsg,
                 cfg |-> named([cfg1 EXCEPT !.RootCAs = caCerts]), read |-> keyRead \cup {caCerts}]
        ELSE
            [ok |-> TRUE, err |-> NoMsg, cfg |-> named(cfg1), read |-> keyRead]

\* buildCredentials with skipVerify looked at first: the key pair is not
\* loaded when verification is off
buildCredentials_SkipVerifyFirst(skipVerify, caCerts, clientCert, clientKey, serverName, fs) ==
    LET loadsPair == clientCert # "" /\ clientKey # ""
        keyRead   == IF loadsPair THEN {clientCert, clientKey} ELSE {}
        cfg1      == IF loadsPair THEN [ZeroTLSConfig EXCEPT !.Certificates = TRUE] ELSE ZeroTLSConfig
        named(c)  == IF serverName # "" THEN [c EXCEPT !.ServerName = serverName] ELSE c
    IN  IF skipVerify THEN
            [ok |-> TRUE, err |-> NoMsg,
             cfg |-> named([ZeroTLSConfig EXCEPT !.InsecureSkipVerify = TRUE]), read |-> {}]
        ELSE IF loadsPair /\ ~fs.keyPairLoads THEN
            [ok |-> FALSE, err |-> Msg("failed to load tls client cert/key pair. error=%v", "", 0),
             cfg |-> ZeroTLSConfig, read |-> keyRead]
        ELSE IF caCerts # "" THEN
            IF ~fs.caReadable THEN
                [ok |-> FALSE, err |-> Msg("failed to load root CA certificates from file (%s) error=%v", caCerts, 0),
                 cfg |-> ZeroTLSConfig, read |-> keyRead \cup {caCerts}]
            ELSE IF ~fs.caParses THEN
                [ok |-> FALSE, err |-> Msg("no root CA certs parsed from file %s", caCerts, 0),
                 cfg |-> ZeroTLSConfig, read |-> keyRead \cup {caCerts}]
            ELSE
                [ok |-> TRUE, err |-> NoMsg,
                 cfg |-> named([cfg1 EXCEPT !.RootCAs = caCerts]), read |-> keyRead \cup {caCerts}]
        ELSE
            [ok |-> TRUE, err |-> NoMsg, cfg |-> named(cfg1), read |-> keyRead]

\* buildCredentials (check.go:222-251), against the file system fs.
\* err is NoMsg on success; ok says a credential object is returned;
\* read is the set of files the call opened.
buildCredentials(skipVerify, caCerts, clientCert, clientKey, serverName, fs) ==
    LET loadsPair == clientCert # "" /\ clientKey # ""
        keyRead   == IF loadsPair THEN {clientCert, clientKey} ELSE {}
        cfg1      == IF loadsPair THEN [ZeroTLSConfig EXCEPT !.Certificates = TRUE] ELSE ZeroTLSConfig
        named(c)  == IF serverName # "" THEN [c EXCEPT !.ServerName = serverName] ELSE c
    IN  IF loadsPair /\ ~fs.keyPairLoads THEN
            [ok |-> FALSE, err |-> Msg("failed to load tls client cert/key pair. error=%v", "", 0),
             cfg |-> ZeroTLSConfig, read |-> keyRead]
        ELSE IF skipVerify THEN
            [ok |-> TRUE, err |-> NoMsg,
             cfg |-> named([cfg1 EXCEPT !.InsecureSkipVerify = TRUE]), read |-> keyRead]
        ELSE IF caCerts # "" THEN
            IF ~fs.caReadable THEN
                [ok |-> FALSE, err |-> Msg("failed to load root CA certificates from file (%s) error=%v", caCerts, 0),
                 cfg |-> ZeroTLSConfig, read |-> keyRead \cup {caCerts}]
            ELSE IF ~fs.caParses THEN
                [ok |-> FALSE, err |-> Msg("no root CA certs parsed from file %s", caCerts, 0),
                 cfg |-> ZeroTLSConfig, read |-> keyRead \cup {caCerts}]
            ELSE
                [ok |-> TRUE, err |-> NoMsg,
                 cfg |-> named([cfg1 EXCEPT !.RootCAs = caCerts]), read |-> keyRead \cup {caCerts}]
        ELSE
            [ok |-> TRUE, err |-> NoMsg, cfg |-> named(cfg1), read |-> keyRead]

\* no call of buildCredentials yet
NoTLSCall ==
    [called |-> FALSE, skipVerify |-> FALSE, caCerts |-> "", clientCert |-> "", clientKey |-> "",
     serverName |-> "", fs |-> [keyPairLoads |-> TRUE, caReadable |-> TRUE, caParses |-> TRUE],
     ok |-> FALSE, cfg |-> ZeroTLSConfig, read |-> {}]

\* parseFlags (check.go:125-203): flagSet.Parse, then the checks.
parseFlags(a) ==
    IF a.parseError THEN Msg("flag: parse error", "", 0)
    ELSE IF SetAll(EmptyMD, a.headers).err # NoMsg THEN SetAll(EmptyMD, a.headers).err
    ELSE Validate(a.flags)

\* parseFlags without fl = Flags{}: the flag state of the call before stays
resetFlags_Kept(f) == f

\* fl = Flags{} (check.go:127)
resetFlags(f) == ZeroFlags

\* what the workload endpoint answers: workloadapi.NewX509Source succeeds,
\* source.GetX509SVID succeeds
WorkloadAPIs == [source : BOOLEAN, svid : BOOLEAN]

\* no call of workloadapi.NewX509Source yet
NoSPIFFECall == [called |-> FALSE, w |-> [source |-> TRUE, svid |-> TRUE], cancelled |-> FALSE]

\* the else-if branch of probe for -spiffe (check.go:286-301): the exit taken,
\* or Running when the credentials are built.  A cancelled ctx fails
\* NewX509Source, spiffeCtx being derived from it.
spiffeExit(verbose, cancelled, w) ==
    IF cancelled \/ ~w.source THEN StatusSpiffeFailed
    ELSE IF verbose /\ ~w.svid THEN FatalExit
    ELSE Running

----------------------------------------------------------------------------
(* Contexts *)

Canceled == "context canceled"
DeadlineExceeded == "context deadline exceeded"

\* context.WithTimeout(ctx, timeout) (check.go:317,335): Err() of the new
\* context when it is made; a done parent passes its error on, a duration
\* that is not positive has expired at once
WithTimeout(parentErr, timeout) ==
    IF parentErr # "" THEN parentErr
    ELSE IF timeout <= 0 THEN DeadlineExceeded
    ELSE ""

\* the timer of a WithTimeout context fires at its deadline; a context that
\* is done keeps its error
expire(err, deadline, t) == IF err = "" /\ t >= deadline THEN DeadlineExceeded ELSE err

\* cancel() of the parent reaches a derived context that is not done
cancelled(err) == IF err = "" THEN Canceled ELSE err

\* Err() of the shared context ctx
ctxErr(isCancelled) == IF isCancelled THEN Canceled ELSE ""

----------------------------------------------------------------------------
(* Connect *)

\* the transport options of grpc.DialContext
WithInsecure == "WithInsecure"
WithTransportCredentials(c) == "WithTransportCredentials(" \o c \o ")"
TransportOptions == {WithInsecure, WithTransportCredentials("tls"), WithTransportCredentials("spiffe")}

\* the options of Connect with WithInsecure appended outside the else
connectOptions_BothOptions(c) ==
    IF c # "insecure" THEN {WithTransportCredentials(c), WithInsecure} ELSE {WithInsecure}

\* the transport option Connect appends (connect.go:27-34): creds != nil is
\* a credential object, nil is "insecure"
connectOptions(c) ==
    IF c # "insecure" THEN {WithTransportCredentials(c)} ELSE {WithInsecure}

\* what grpc.DialContext (WithBlock) returns: with its context done it
\* returns ctx.Err(); "ready" is a connection
DialResults(err) ==
    IF err # "" THEN {err}
    ELSE {"ready", "connection error"}

\* the log line of a failed dial (check.go:320-327)
connectError(err, addr, timeout) ==
    IF err = "context deadline exceeded"
    THEN Msg("timeout: failed to connect service %q within %v", addr, timeout)
    ELSE Msg("error: failed to connect service at %q: %+v", addr, 0)

\* Connect with every failure reported by the generic line
Connect_NoTimeoutLine(err, addr, timeout) ==
    IF err = "ready" THEN NoMsg
    ELSE Msg("error: failed to connect service at %q: %+v", addr, 0)

\* Connect with the test of the error the other way round
Connect_TimeoutLineForOthers(err, addr, timeout) ==
    IF err = "ready" THEN NoMsg
    ELSE IF err # DeadlineExceeded
    THEN Msg("timeout: failed to connect service %q within %v", addr, timeout)
    ELSE Msg("error: failed to connect service at %q: %+v", addr, 0)

\* Connect (connect.go:26-45): the error returned for what DialContext
\* returned, NoMsg with the connection
Connect(err, addr, timeout) ==
    IF err = "ready" THEN NoMsg
    ELSE IF err = DeadlineExceeded
    THEN Msg("timeout: failed to connect service %q within %v", addr, timeout)
    ELSE Msg("error: failed to connect service at %q: %+v", addr, 0)

----------------------------------------------------------------------------
(* Check RPC *)

ServingStatus == {"UNKNOWN", "SERVING", "NOT_SERVING", "SERVICE_UNKNOWN"}
\* error of the call: a gRPC status code, or an error that is no status
RPCErrors == {"Unimplemented", "DeadlineExceeded", "Canceled", "Unavailable", "NotStatus"}
\* the message the server puts in a status error
StatusMessages == {"", "unknown service grpc.health.v1.Health"}
NoError == "nil"
NoReply == [err |-> "none", status |-> "UNKNOWN", message |-> ""]

\* what the server answers: an error with some status message, or a reply
ServerResults ==
    [err : RPCErrors, status : {"UNKNOWN", "SERVING"}, message : StatusMessages]
        \cup [err : {NoError}, status : ServingStatus, message : {""}]

\* codeOf taking every done context for an expired one
codeOf_AlwaysDeadline(err) == "DeadlineExceeded"

\* the status code the client library gives a call whose context is done
codeOf(err) == IF err = DeadlineExceeded THEN "DeadlineExceeded" ELSE "Canceled"

\* the server of a call: "*" answers anything, the other answers SERVING to
\* the one service name and an error to every other
\* (connect.go:89-96, main_test.go:46-55)
Servers == {"*", "myService"}

\* what HealthClient.Check returns: a call whose context is done fails with
\* the code of the context's error; otherwise it returns what the server
\* answers to the service name asked, and does not return while the server
\* is silent
RPCResults(err, replies, served, service) ==
    IF err # "" THEN {[err |-> codeOf(err), status |-> "UNKNOWN", message |-> err]}
    ELSE IF ~replies THEN {}
    ELSE IF served = "*" THEN ServerResults
    ELSE IF service = served THEN {[err |-> NoError, status |-> "SERVING", message |-> ""]}
    ELSE {[err |-> "NotFound", status |-> "UNKNOWN", message |-> "got wrong service name"]}

\* the request with the service name left out
requestService_Empty(f) == ""

\* &healthpb.HealthCheckRequest{Service: fl.Service} (check.go:340;
\* check.go:38 for Check of internal/probe): the service name of the request
requestService(f) == f.Service

\* no call yet: no request
NoRequest == [service |-> "", md |-> EmptyMD]

\* classify with the reply compared against NOT_SERVING instead of SERVING
classify_OnlyNotServing(v, r, rpcTimeout) ==
    IF r.err # NoError THEN
        [code |-> RPCFailureOf(v),
         msg  |-> IF r.err = "Unimplemented" THEN
                      IF v = "probe"
                      THEN Msg("error: this server does not implement the grpc health protocol (grpc.health.v1.Health): %s", r.message, 0)
                      ELSE Msg("error: this server does not implement the grpc health protocol (grpc.health.v1.Health)", "", 0)
                  ELSE IF r.err = "DeadlineExceeded" THEN
                      Msg("timeout: health rpc did not complete within %v", "", rpcTimeout)
                  ELSE Msg("error: health rpc failed: %+v", r.err, 0)]
    ELSE IF r.status = "NOT_SERVING" THEN
        [code |-> UnhealthyOf(v), msg |-> Msg("service unhealthy (responded with %q)", r.status, 0)]
    ELSE [code |-> 0, msg |-> NoMsg]

\* the classification of the call's result (check.go:341-361; the library
\* forms at pkg/grpc-health-probe.go:135-153, pkg/prober/probe.go:160-178,
\* main.go:228-249, part_009:255-274): exit code and failure line.  probe
\* appends stat.Message() to the line for Unimplemented.
classify(v, r, rpcTimeout) ==
    IF r.err # NoError THEN
        [code |-> RPCFailureOf(v),
         msg  |-> IF r.err = "Unimplemented" THEN
                      IF v = "probe"
                      THEN Msg("error: this server does not implement the grpc health protocol (grpc.health.v1.Health): %s", r.message, 0)
                      ELSE Msg("error: this server does not implement the grpc health protocol (grpc.health.v1.Health)", "", 0)
                  ELSE IF r.err = "DeadlineExceeded" THEN
                      Msg("timeout: health rpc did not complete within %v", "", rpcTimeout)
                  ELSE Msg("error: health rpc failed: %+v", r.err, 0)]
    ELSE IF r.status # "SERVING" THEN
        [code |-> UnhealthyOf(v), msg |-> Msg("service unhealthy (responded with %q)", r.status, 0)]
    ELSE [code |-> 0, msg |-> NoMsg]

\* Check without the branch for DeadlineExceeded
Check_NoDeadlineBranch(r, timeout) ==
    IF r.err # NoError THEN
        [kind |-> "error",
         msg  |-> IF r.err = "Unimplemented" THEN
                      Msg("error: this server does not implement the grpc health protocol (grpc.health.v1.Health)", "", 0)
                  ELSE Msg("error: health rpc failed: %+v", r.err, 0)]
    ELSE IF r.status # "SERVING" THEN
        [kind |-> "ServingStatusError", msg |-> Msg("service unhealthy (responded with %q)", r.status, 0)]
    ELSE [kind |-> "nil", msg |-> NoMsg]

\* Check looking at the status of the reply before the error of the call
Check_StatusFirst(r, timeout) ==
    IF r.status # "SERVING" THEN
        [kind |-> "ServingStatusError", msg |-> Msg("service unhealthy (responded with %q)", r.status, 0)]
    ELSE IF r.err # NoError THEN
        [kind |-> "error",
         msg  |-> IF r.err = "Unimplemented" THEN
                      Msg("error: this server does not implement the grpc health protocol (grpc.health.v1.Health)", "", 0)
                  ELSE IF r.err = "DeadlineExceeded" THEN
                      Msg("timeout: health rpc did not complete within %v", "", timeout)
                  ELSE Msg("error: health rpc failed: %+v", r.err, 0)]
    ELSE [kind |-> "nil", msg |-> NoMsg]

\* Check taking every reply but NOT_SERVING for healthy
Check_OnlyNotServing(r, timeout) ==
    IF r.err # NoError THEN
        [kind |-> "error",
         msg  |-> IF r.err = "Unimplemented" THEN
                      Msg("error: this server does not implement the grpc health protocol (grpc.health.v1.Health)", "", 0)
                  ELSE IF r.err = "DeadlineExceeded" THEN
                      Msg("timeout: health rpc did not complete within %v", "", timeout)
                  ELSE Msg("error: health rpc failed: %+v", r.err, 0)]
    ELSE IF r.status = "NOT_SERVING" THEN
        [kind |-> "ServingStatusError", msg |-> Msg("service unhealthy (responded with %q)", r.status, 0)]
    ELSE [kind |-> "nil", msg |-> NoMsg]

\* Check (check.go:34-51) of internal/probe: the error returned and its Go
\* type, for the result r of client.Check
Check(r, timeout) ==
    IF r.err # NoError THEN
        [kind |-> "error",
         msg  |-> IF r.err = "Unimplemented" THEN
                      Msg("error: this server does not implement the grpc health protocol (grpc.health.v1.Health)", "", 0)
                  ELSE IF r.err = "DeadlineExceeded" THEN
                      Msg("timeout: health rpc did not complete within %v", "", timeout)
                  ELSE Msg("error: health rpc failed: %+v", r.err, 0)]
    ELSE IF r.status # "SERVING" THEN
        [kind |-> "ServingStatusError", msg |-> Msg("service unhealthy (responded with %q)", r.status, 0)]
    ELSE [kind |-> "nil", msg |-> NoMsg]

----------------------------------------------------------------------------
(* The run *)

\* the state at the entry of one call of an entry point on a raw
\* configuration drawn from A
Setup(A) ==
    /\ variant \in Variants
    /\ args \in A
    \* only the command lines are parsed; -spiffe and -rpc-header exist in
    \* probe alone
    /\ variant \notin CLIVariants => ~args.parseError
    /\ variant # "probe" => (~args.flags.SPIFFE /\ args.headers = <<>>)
    \* Connect and Check take an address, credentials or nil, two durations
    \* and a service name
    /\ variant = "internal" =>
           args.flags = [ZeroFlags EXCEPT !.Addr = args.flags.Addr, !.TLS = args.flags.TLS,
                                          !.ConnTimeout = args.flags.ConnTimeout,
                                          !.RPCTimeout = args.flags.RPCTimeout,
                                          !.Service = args.flags.Service]
    \* buildCredentials takes the five TLS sub-options, whatever they are
    /\ variant = "credentials" =>
           args.flags = [ZeroFlags EXCEPT !.TLS = TRUE,
                                          !.TLSNoVerify = args.flags.TLSNoVerify,
                                          !.TLSCACert = args.flags.TLSCACert,
                                          !.TLSClientCert = args.flags.TLSClientCert,
                                          !.TLSClientKey = args.flags.TLSClientKey,
                                          !.TLSServerName = args.flags.TLSServerName]
    /\ fl = IF variant \in CLIVariants THEN ZeroFlags ELSE args.flags
    /\ pc = IF variant = "internal" THEN "dial"
            ELSE IF variant = "credentials" THEN "opts"
            ELSE "start"
    /\ exitCode = Running
    /\ msg = NoMsg
    /\ endedAt = ""
    \* the library forms run under the caller's context, which the caller
    \* cancels on an interrupt (check.go:441-452)
    /\ listener = IF variant \in CLIVariants \cup {"credentials"} THEN "none" ELSE "waiting"
    /\ sigQueued = FALSE
    /\ interrupts = 0
    /\ ctxCancelled = FALSE
    /\ creds = IF variant # "internal" THEN "none"
               ELSE IF args.flags.TLS THEN "tls" ELSE "insecure"
    /\ credCalls = 0
    /\ tlsCall = NoTLSCall
    /\ spiffeCall = NoSPIFFECall
    /\ conn = "none"
    /\ dials = 0
    /\ rpcs = 0
    /\ rpcDeadline = FALSE
    /\ reply = NoReply
    /\ phases = <<>>
    /\ now = 0
    /\ dialErr = ""
    /\ dialStart = 0
    /\ dialExpiry = 0
    /\ dialCtxErr = ""
    /\ connectedAt = 0
    /\ rpcStart = 0
    /\ rpcExpiry = 0
    /\ rpcCtxErr = ""
    /\ serverReplies = TRUE
    /\ errKind = "none"
    /\ calls = 1
    /\ flBefore = fl
    /\ request = NoRequest
    /\ serves = "*"
    /\ opts = {}

Init == Setup(ArgSets)

\* return / os.Exit with the given code; the deferred conn.Close() runs
\* (check.go:329; main.go:170,217: the os.Exit defer is the first registered,
\* so the last run).  Connect and Check of internal/probe leave the
\* connection to their caller.
Return(code, m, at) ==
    /\ pc' = "done"
    /\ endedAt' = at
    /\ exitCode' = code
    /\ msg' = m
    /\ conn' = IF conn = "open" /\ variant # "internal" THEN "closed" ELSE conn

\* probe: parseFlags and its error return (check.go:254-257); main.go init
\* (61-121); pkg Check (94-96); prober NewChecker (115-120)
ParseFlags ==
    /\ pc = "start"
    /\ fl' = [args.flags EXCEPT !.RPCHeaders = SetAll(resetFlags(fl).RPCHeaders, args.headers).md]
    /\ phases' = Append(phases, "validate")
    /\ LET err == parseFlags(args)
       IN  IF err # NoMsg
           THEN Return(InvalidArgumentsOf(variant), err, "parseFlags")
           ELSE /\ pc' = IF variant \in CLIVariants THEN "listen" ELSE "opts"
                /\ UNCHANGED <<exitCode, msg, endedAt, conn>>
    /\ UNCHANGED <<calls, flBefore, request, serves, opts, variant, args, listener, sigQueued, interrupts, ctxCancelled,
                   creds, credCalls, tlsCall, spiffeCall, dials, rpcs, rpcDeadline, reply,
                   dialErr, serverReplies, errKind, timing>>

\* ctx, cancel := context.WithCancel; signal.Notify; go func (check.go:258-269)
StartListener ==
    /\ pc = "listen"
    /\ listener' = "waiting"
    /\ pc' = "opts"
    /\ UNCHANGED <<calls, flBefore, request, serves, opts, variant, args, fl, exitCode, msg, endedAt, sigQueued, interrupts, ctxCancelled,
                   creds, credCalls, tlsCall, spiffeCall, conn, dials, rpcs, rpcDeadline, reply, phases,
                   dialErr, serverReplies, errKind, timing>>

\* if fl.TLS && fl.SPIFFE (check.go:275-278)
RejectTLSAndSPIFFE ==
    /\ pc = "opts"
    /\ variant = "probe"
    /\ fl.TLS /\ fl.SPIFFE
    /\ Return(StatusInvalidArguments, Msg("-tls and -spiffe are mutually incompatible", "", 0), "tls+spiffe")
    /\ UNCHANGED <<calls, flBefore, request, serves, opts, variant, args, fl, listener, sigQueued, interrupts, ctxCancelled,
                   creds, credCalls, tlsCall, spiffeCall, dials, rpcs, rpcDeadline, reply, phases,
                   dialErr, serverReplies, errKind, timing>>

\* if fl.TLS { buildCredentials ... } (check.go:279-285); buildCredentials
\* called on its own returns the credential object or its error
TLSCredentials ==
    /\ pc = "opts"
    /\ fl.TLS
    /\ ~(variant = "probe" /\ fl.SPIFFE)
    /\ credCalls' = credCalls + 1
    /\ phases' = Append(phases, "creds")
    /\ \E fs \in FileSystems :
          LET r == buildCredentials(fl.TLSNoVerify, fl.TLSCACert, fl.TLSClientCert,
                                    fl.TLSClientKey, fl.TLSServerName, fs)
          IN  /\ tlsCall' = [called |-> TRUE, skipVerify |-> fl.TLSNoVerify, caCerts |-> fl.TLSCACert,
                              clientCert |-> fl.TLSClientCert, clientKey |-> fl.TLSClientKey,
                              serverName |-> fl.TLSServerName, fs |-> fs,
                              ok |-> r.ok, cfg |-> r.cfg, read |-> r.read]
              /\ IF r.ok
                 THEN /\ creds' = "tls"
                      /\ IF variant = "credentials"
                         THEN /\ Return(NoExitCode, NoMsg, "buildCredentials")
                              /\ UNCHANGED opts
                         ELSE /\ opts' = opts \cup {WithTransportCredentials("tls")}
                              /\ pc' = "dial"
                              /\ UNCHANGED <<exitCode, msg, endedAt, conn>>
                 ELSE /\ IF variant = "credentials"
                         THEN Return(NoExitCode, r.err, "buildCredentials")
                         ELSE Return(InvalidArgumentsOf(variant),
                                     Msg("failed to initialize tls credentials. error=%v", r.err.fmt, 0),
                                     "buildCredentials")
                      /\ UNCHANGED <<creds, opts>>
    /\ UNCHANGED <<calls, flBefore, request, serves, variant, args, fl, listener, sigQueued, interrupts, ctxCancelled,
                   spiffeCall, dials, rpcs, rpcDeadline, reply,
                   dialErr, serverReplies, errKind, timing>>

\* else if fl.SPIFFE { ... } (check.go:286-301)
SPIFFECredentials ==
    /\ pc = "opts"
    /\ variant = "probe"
    /\ ~fl.TLS /\ fl.SPIFFE
    /\ credCalls' = credCalls + 1
    /\ phases' = Append(phases, "creds")
    /\ \E w \in WorkloadAPIs :
          LET code == spiffeExit(fl.Verbose, ctxCancelled, w)
          IN  /\ spiffeCall' = [called |-> TRUE, w |-> w, cancelled |-> ctxCancelled]
              /\ IF code = Running
                 THEN /\ creds' = "spiffe"
                      /\ opts' = opts \cup {WithTransportCredentials("spiffe")}
                      /\ pc' = "dial"
                      /\ UNCHANGED <<exitCode, msg, endedAt, conn>>
                 ELSE /\ Return(code, IF code = StatusSpiffeFailed
                                      THEN Msg("failed to initialize tls credentials with spiffe. error=%v", "", 0)
                                      ELSE Msg("error getting x509 svid: %+v", "", 0),
                                "spiffe")
                      /\ UNCHANGED <<creds, opts>>
    /\ UNCHANGED <<calls, flBefore, request, serves, variant, args, fl, listener, sigQueued, interrupts, ctxCancelled,
                   tlsCall, dials, rpcs, rpcDeadline, reply,
                   dialErr, serverReplies, errKind, timing>>

\* else { opts = append(opts, grpc.WithInsecure()) } (check.go:302-304)
InsecureCredentials ==
    /\ pc = "opts"
    /\ ~fl.TLS
    /\ ~(variant = "probe" /\ fl.SPIFFE)
    /\ creds' = "insecure"
    /\ opts' = opts \cup {WithInsecure}
    /\ phases' = Append(phases, "creds")
    /\ pc' = "dial"
    /\ UNCHANGED <<calls, flBefore, request, serves, variant, args, fl, exitCode, msg, endedAt, listener, sigQueued, interrupts,
                   ctxCancelled, credCalls, tlsCall, spiffeCall, conn, dials, rpcs, rpcDeadline, reply,
                   dialErr, serverReplies, errKind, timing>>

\* dialCtx := WithTimeout(ctx, ConnTimeout); grpc.DialContext blocks
\* (check.go:316-319; connect.go:35-37)
DialStart ==
    /\ pc = "dial"
    /\ dials' = dials + 1
    /\ phases' = Append(phases, "connect")
    /\ pc' = "dialing"
    /\ opts' = IF variant = "internal" THEN connectOptions(creds) ELSE opts
    /\ dialStart' = now
    /\ dialExpiry' = now + fl.ConnTimeout
    /\ dialCtxErr' = WithTimeout(ctxErr(ctxCancelled), fl.ConnTimeout)
    /\ UNCHANGED <<calls, flBefore, request, serves, variant, args, fl, exitCode, msg, endedAt, listener, sigQueued, interrupts,
                   ctxCancelled, creds, credCalls, tlsCall, spiffeCall, conn, rpcs, rpcDeadline, reply,
                   dialErr, serverReplies, errKind, now, connectedAt, rpcStart, rpcExpiry, rpcCtxErr>>

\* DialReturn with the error of DialContext not looked at: the flow goes on
\* to the call without a connection
DialReturn_IgnoresError ==
    /\ pc = "dialing"
    /\ \E res \in DialResults(dialCtxErr) :
          /\ dialErr' = res
          /\ conn' = IF res = "ready" THEN "open" ELSE conn
          /\ connectedAt' = now
          /\ pc' = "rpc"
    /\ UNCHANGED <<calls, flBefore, request, serves, opts, variant, args, fl, listener, sigQueued, interrupts, ctxCancelled,
                   creds, credCalls, tlsCall, spiffeCall, dials, rpcs, rpcDeadline, reply, phases,
                   serverReplies, now, dialStart, dialExpiry, dialCtxErr, rpcStart, rpcExpiry, rpcCtxErr,
                   exitCode, msg, endedAt, errKind>>

\* DialContext returns (check.go:319-332; connect.go:37-44)
DialReturn ==
    /\ pc = "dialing"
    /\ \E res \in DialResults(dialCtxErr) :
          /\ dialErr' = res
          /\ IF res = "ready"
             THEN /\ conn' = "open"
                  /\ connectedAt' = now
                  /\ pc' = "rpc"
                  /\ UNCHANGED <<exitCode, msg, endedAt, errKind>>
             ELSE /\ IF variant = "internal"
                     THEN /\ Return(NoExitCode, Connect(res, fl.Addr, fl.ConnTimeout), "dial")
                          /\ errKind' = "error"
                     ELSE /\ Return(ConnectionFailureOf(variant),
                                    connectError(res, fl.Addr, fl.ConnTimeout), "dial")
                          /\ UNCHANGED errKind
                  /\ UNCHANGED connectedAt
    /\ UNCHANGED <<calls, flBefore, request, serves, opts, variant, args, fl, listener, sigQueued, interrupts, ctxCancelled,
                   creds, credCalls, tlsCall, spiffeCall, dials, rpcs, rpcDeadline, reply, phases,
                   serverReplies, now, dialStart, dialExpiry, dialCtxErr, rpcStart, rpcExpiry, rpcCtxErr>>

\* the context of the call: probe replaces the WithTimeout context by
\* metadata.NewOutgoingContext(ctx, ...) (check.go:335-337); the other forms
\* call under the WithTimeout context
callHasDeadline(v) == v # "probe"

\* the deadline of a context that has none: beyond the horizon
NoDeadline == MaxTime + 1

\* the context of the call made under dialCtx: its deadline is no later than
\* the deadline of the connect phase
rpcDeadlineOf_UnderDialCtx(t, timeout, dialDeadline) ==
    IF dialDeadline < t + timeout THEN dialDeadline ELSE t + timeout

\* rpcCtx := context.WithTimeout(ctx, RPCTimeout) at clock t (check.go:335,
\* pkg/prober/probe.go:157): ctx has no deadline of its own, dialCtx is not
\* its parent
rpcDeadlineOf(t, timeout, dialDeadline) == t + timeout

\* healthpb.NewHealthClient(conn).Check(rpcCtx, ...) is issued (check.go:334-340;
\* check.go:35-38 for Check of internal/probe)
CallCheck ==
    /\ pc = "rpc"
    /\ rpcs' = rpcs + 1
    /\ rpcDeadline' = callHasDeadline(variant)
    /\ phases' = Append(phases, "rpc")
    /\ pc' = "calling"
    /\ rpcStart' = now
    /\ rpcExpiry' = IF callHasDeadline(variant)
                    THEN rpcDeadlineOf(now, fl.RPCTimeout, dialExpiry)
                    ELSE NoDeadline
    /\ rpcCtxErr' = IF callHasDeadline(variant)
                    THEN expire(WithTimeout(ctxErr(ctxCancelled), fl.RPCTimeout), rpcExpiry', now)
                    ELSE ctxErr(ctxCancelled)
    /\ request' = [service |-> requestService(fl),
                    md |-> IF variant = "probe" THEN fl.RPCHeaders ELSE EmptyMD]
    /\ serverReplies' \in BOOLEAN
    /\ serves' \in IF serverReplies' THEN Servers ELSE {"*"}
    /\ UNCHANGED <<calls, flBefore, opts, variant, args, fl, exitCode, msg, endedAt, listener, sigQueued, interrupts,
                   ctxCancelled, creds, credCalls, tlsCall, spiffeCall, conn, dials, reply,
                   dialErr, errKind, now, dialStart, dialExpiry, dialCtxErr, connectedAt>>

\* the call returns: resp, err := ...Check(rpcCtx, ...) (check.go:338-340;
\* check.go:38 for Check of internal/probe).  What it returned is settled
\* here, by the context of the call and the server; reply takes it when the
\* classification reads it.
CheckReturn ==
    /\ pc = "calling"
    /\ RPCResults(rpcCtxErr, serverReplies, serves, request.service) # {}
    /\ pc' = "classify"
    /\ UNCHANGED <<calls, flBefore, request, serves, opts, variant, args, fl, exitCode, msg, endedAt, conn,
                   listener, sigQueued, interrupts, ctxCancelled, creds, credCalls, tlsCall,
                   spiffeCall, dials, rpcs, rpcDeadline, reply, phases, dialErr, serverReplies,
                   errKind, timing>>

\* the result of the call is classified and the flow returns
\* (check.go:341-361; check.go:39-50 for Check of internal/probe); a
\* cancellation after the call returned does not touch its context's result
Classify ==
    /\ pc = "classify"
    /\ phases' = Append(phases, "classify")
    /\ \E r \in RPCResults(rpcCtxErr, serverReplies, serves, request.service) :
          /\ reply' = r
          /\ IF variant = "internal"
             THEN /\ Return(NoExitCode, Check(r, fl.RPCTimeout).msg, "check")
                  /\ errKind' = Check(r, fl.RPCTimeout).kind
             ELSE /\ Return(classify(variant, r, fl.RPCTimeout).code,
                            classify(variant, r, fl.RPCTimeout).msg, "check")
                  /\ UNCHANGED errKind
    /\ UNCHANGED <<calls, flBefore, request, serves, opts, variant, args, fl, listener, sigQueued, interrupts,
                   ctxCancelled, creds, credCalls, tlsCall, spiffeCall, dials, rpcs, rpcDeadline,
                   dialErr, serverReplies, timing>>

\* time passes while the flow blocks in DialContext or in the call; the
\* timer of the pending context fires at its deadline, and a blocked
\* operation whose context is done returns before more time passes
Tick ==
    /\ pc \in {"dialing", "calling"}
    /\ now < MaxTime
    /\ pc = "dialing" => dialCtxErr = ""
    /\ pc = "calling" => rpcCtxErr = ""
    /\ now' = now + 1
    /\ dialCtxErr' = IF pc = "dialing" THEN expire(dialCtxErr, dialExpiry, now + 1) ELSE dialCtxErr
    /\ rpcCtxErr' = IF pc = "calling" /\ rpcDeadline
                    THEN expire(rpcCtxErr, rpcExpiry, now + 1)
                    ELSE rpcCtxErr
    /\ UNCHANGED <<calls, flBefore, request, serves, opts, variant, args, fl, pc, exitCode, msg, endedAt, listener, sigQueued, interrupts,
                   ctxCancelled, creds, credCalls, tlsCall, spiffeCall, conn, dials, rpcs,
                   rpcDeadline, reply, phases, dialErr, serverReplies, errKind,
                   dialStart, dialExpiry, connectedAt, rpcStart, rpcExpiry>>

\* the environment interrupts the process while the handler is registered
\* (before signal.Notify an interrupt kills the process, which then returns
\* no exit code of its own); channel c has capacity 1 and signal delivery
\* never blocks (check.go:260-261)
Interrupt ==
    /\ pc # "done"
    /\ listener # "none"
    /\ interrupts < MaxInterrupts
    /\ interrupts' = interrupts + 1
    /\ sigQueued' = TRUE
    /\ UNCHANGED <<calls, flBefore, request, serves, opts, variant, args, fl, pc, exitCode, msg, endedAt, listener, ctxCancelled, creds,
                   credCalls, tlsCall, spiffeCall, conn, dials, rpcs, rpcDeadline, reply, phases,
                   dialErr, serverReplies, errKind, timing>>

\* the listener goroutine: sig := <-c; cancel() (check.go:262-269).  cancel()
\* ends the contexts derived from ctx.  The goroutine of part_009 goes on to
\* os.Exit(0) (part_009:311-312), the others return.
ListenerRun ==
    /\ pc # "done"
    /\ listener = "waiting"
    /\ sigQueued
    /\ sigQueued' = FALSE
    /\ ctxCancelled' = TRUE
    /\ dialCtxErr' = IF pc = "dialing" THEN cancelled(dialCtxErr) ELSE dialCtxErr
    /\ rpcCtxErr' = IF pc = "calling" THEN cancelled(rpcCtxErr) ELSE rpcCtxErr
    /\ listener' = IF variant = "part_009" THEN "exiting" ELSE "done"
    /\ UNCHANGED <<calls, flBefore, request, serves, opts, variant, args, fl, pc, exitCode, msg, endedAt, interrupts, creds,
                   credCalls, tlsCall, spiffeCall, conn, dials, rpcs, rpcDeadline, reply, phases,
                   dialErr, serverReplies, errKind,
                   now, dialStart, dialExpiry, connectedAt, rpcStart, rpcExpiry>>

\* os.Exit(0) in the listener goroutine of part_009 (part_009:312): the
\* process ends at once, no deferred function of the main flow runs
ListenerExit ==
    /\ pc # "done"
    /\ listener = "exiting"
    /\ listener' = "done"
    /\ pc' = "done"
    /\ endedAt' = "interrupt"
    /\ exitCode' = 0
    /\ UNCHANGED <<calls, flBefore, request, serves, opts, variant, args, fl, msg, sigQueued, interrupts, ctxCancelled, creds,
                   credCalls, tlsCall, spiffeCall, conn, dials, rpcs, rpcDeadline, reply, phases,
                   dialErr, serverReplies, errKind, timing>>

Next ==
    \/ ParseFlags
    \/ StartListener
    \/ RejectTLSAndSPIFFE
    \/ TLSCredentials
    \/ SPIFFECredentials
    \/ InsecureCredentials
    \/ DialStart
    \/ DialReturn
    \/ CallCheck
    \/ CheckReturn
    \/ Classify
    \/ Tick
    \/ Interrupt
    \/ ListenerRun
    \/ ListenerExit

Spec == Init /\ [][Next]_vars

\* Spec with the scheduling of the Go runtime: a timer fires at its deadline,
\* a blocked call whose result is there returns, a goroutine that can run
\* does run.  Nothing makes the environment send an interrupt.
FairSpec ==
    /\ Spec
    /\ WF_vars(Tick)
    /\ WF_vars(DialReturn)
    /\ WF_vars(CallCheck)
    /\ WF_vars(CheckReturn)
    /\ WF_vars(Classify)
    /\ WF_vars(ListenerRun)

----------------------------------------------------------------------------
(* The request: -service and -rpc-header *)

\* a command line that passes validation, without TLS and SPIFFE
PlainFlags ==
    [ZeroFlags EXCEPT !.Addr = "localhost:5000", !.ConnTimeout = MaxDuration, !.RPCTimeout = MaxDuration]

\* -rpc-header flags of a command line: none, one, one key twice, two keys
\* in either order, a value without the separator
RequestHeaders ==
    {<<>>, <<"k: k">>, <<"k:k", "k: :">>, <<"k:k", " :k">>, <<" :k", "k:k">>, <<"k:k", "k">>}

\* the command lines of the calls that differ in -service and -rpc-header
RequestArgSets ==
    [flags : {[PlainFlags EXCEPT !.Service = n] : n \in Services},
     headers : RequestHeaders, parseError : {FALSE}]

RequestInit ==
    /\ Setup(RequestArgSets)
    /\ variant \in {"probe", "internal"}

\* the steps of a call without TLS and SPIFFE
RequestNext ==
    \/ ParseFlags
    \/ StartListener
    \/ InsecureCredentials
    \/ DialStart
    \/ DialReturn
    \/ CallCheck
    \/ CheckReturn
    \/ Classify
    \/ Tick
    \/ Interrupt
    \/ ListenerRun

\* probe, and Connect and Check of internal/probe, with -service and
\* -rpc-header
RequestSpec == RequestInit /\ [][RequestNext]_vars

\* the command lines of successive calls: with and without -service, with
\* no, one and two -rpc-header flags
SuccessiveArgSets ==
    [flags : {[PlainFlags EXCEPT !.Service = n] : n \in Services},
     headers : {<<>>, <<"k: k">>, <<"k:k", " :k">>}, parseError : {FALSE}]

SuccessiveInit ==
    /\ Setup(SuccessiveArgSets)
    /\ variant = "probe"

\* a test calls probe again after it returned (main_test.go:35,45,78): a new
\* command line, a new context, channel and listener, a new connection; the
\* package variable fl is what the call before left
NextCall ==
    /\ variant = "probe"
    /\ pc = "done"
    /\ calls < MaxCalls
    /\ calls' = calls + 1
    /\ flBefore' = fl
    /\ args' \in SuccessiveArgSets
    /\ pc' = "start"
    /\ exitCode' = Running
    /\ msg' = NoMsg
    /\ endedAt' = ""
    /\ listener' = "none"
    /\ sigQueued' = FALSE
    /\ interrupts' = 0
    /\ ctxCancelled' = FALSE
    /\ creds' = "none"
    /\ credCalls' = 0
    /\ tlsCall' = NoTLSCall
    /\ spiffeCall' = NoSPIFFECall
    /\ conn' = "none"
    /\ dials' = 0
    /\ rpcs' = 0
    /\ rpcDeadline' = FALSE
    /\ reply' = NoReply
    /\ phases' = <<>>
    /\ now' = 0
    /\ dialErr' = ""
    /\ dialStart' = 0
    /\ dialExpiry' = 0
    /\ dialCtxErr' = ""
    /\ connectedAt' = 0
    /\ rpcStart' = 0
    /\ rpcExpiry' = 0
    /\ rpcCtxErr' = ""
    /\ serverReplies' = TRUE
    /\ errKind' = "none"
    /\ request' = NoRequest
    /\ serves' = "*"
    /\ opts' = {}
    /\ UNCHANGED <<variant, fl>>

\* the steps of a call without TLS and SPIFFE, and the next call
SuccessiveNext ==
    \/ RequestNext
    \/ NextCall

\* successive calls of probe in one process
SuccessiveSpec == SuccessiveInit /\ [][SuccessiveNext]_vars

\* the command lines with any -rpc-header values
HeaderArgSets ==
    [flags : {[PlainFlags EXCEPT !.Service = n] : n \in Services},
     headers : HeaderLists(MaxHeaders), parseError : {FALSE}]

HeaderInit ==
    /\ Setup(HeaderArgSets)
    /\ variant = "probe"

\* parseFlags of probe on any -rpc-header values
HeaderSpec == HeaderInit /\ [][ParseFlags]_vars

----------------------------------------------------------------------------
(* Properties *)

Done == pc = "done"

\* the run ended in parseFlags / Validate
RejectedByValidation == Done /\ endedAt = "parseFlags"

\* C1: in every run of probe the exit code is 0 if and only if a connection
\* was established, the single Check call returned without error and the
\* reply is SERVING; every other outcome has a non-zero exit code.
C1_ExitZeroIffServing ==
    (variant = "probe" /\ Done) =>
        (exitCode = 0 <=> /\ conn # "none"
                          /\ rpcs = 1
                          /\ reply.err = NoError
                          /\ reply.status = "SERVING")

\* a probe run that ended 0 although an interrupt was sent during it
C1_Witness ==
    variant = "probe" /\ Done /\ exitCode = 0 /\ reply.status = "SERVING" /\ interrupts > 0

\* the run failed: it did not end with a SERVING reply
Failed == Done /\ ~(endedAt = "check" /\ reply.err = NoError /\ reply.status = "SERVING")

\* the entry points that report an exit category: the two command lines
\* and the two library forms
C2_Scope == {"probe", "main", "pkg", "prober"}

\* C2: every failure outcome has a non-zero exit code, and the mapping is
\* invalid arguments = 1, connection failure = 2, rpc failure = 3,
\* unhealthy = 4 in every entry point, the library forms included.
C2_ExitCodeMapping ==
    (variant \in C2_Scope /\ Done) =>
        /\ Failed => exitCode # 0
        /\ endedAt \in {"parseFlags", "tls+spiffe", "buildCredentials"} => exitCode = 1
        /\ endedAt = "dial" => exitCode = 2
        /\ (endedAt = "check" /\ reply.err # NoError) => exitCode = 3
        /\ (endedAt = "check" /\ reply.err = NoError /\ reply.status # "SERVING") => exitCode = 4

\* C3: with -addr empty, whatever the other flags, probe ends with exit code
\* 1 and builds no credential, dials nothing and calls nothing.
C3_EmptyAddrExitsOne ==
    (variant = "probe" /\ args.flags.Addr = "") =>
        /\ pc \in {"start", "done"}
        /\ Done => exitCode = 1
        /\ credCalls = 0 /\ creds = "none"
        /\ dials = 0 /\ conn = "none"
        /\ rpcs = 0

\* probe ended on an empty -addr with -tls, -spiffe and -v given
C3_Witness ==
    /\ variant = "probe" /\ Done
    /\ ~args.parseError
    /\ args.flags.Addr = ""
    /\ args.flags.TLS /\ args.flags.SPIFFE /\ args.flags.Verbose
    /\ args.flags.ConnTimeout > 0 /\ args.flags.RPCTimeout > 0

AnyTLSSubOption(c) ==
    \/ c.TLSNoVerify
    \/ c.TLSCACert # ""
    \/ c.TLSClientCert # ""
    \/ c.TLSClientKey # ""
    \/ c.TLSServerName # ""

\* C4 is stated for parseFlags of probe and Config.Validate of pkg.Check
C4_Scope == {"probe", "pkg"}

\* C4: with -tls unset and one of the five TLS sub-options set, validation
\* fails with exit code 1 before any connection attempt; a configuration
\* that passed validation with -tls unset has all five unset.
C4_TLSSubOptionsNeedTLS ==
    (variant \in C4_Scope /\ ~args.parseError) =>
        /\ (~args.flags.TLS /\ AnyTLSSubOption(args.flags)) =>
              /\ pc \in {"start", "done"}
              /\ Done => (endedAt = "parseFlags" /\ exitCode = 1)
              /\ credCalls = 0 /\ dials = 0 /\ rpcs = 0
        /\ (pc # "start" /\ ~RejectedByValidation /\ ~fl.TLS) => ~AnyTLSSubOption(fl)

\* rejected although -tls-client-key is the only thing wrong: the code has
\* no "-tls-client-key without -tls" check, the key-without-cert check
\* catches it
C4_Witness ==
    /\ variant \in C4_Scope /\ RejectedByValidation
    /\ ~args.parseError
    /\ args.flags.Addr # "" /\ args.flags.ConnTimeout > 0 /\ args.flags.RPCTimeout > 0
    /\ ~args.flags.TLS /\ ~args.flags.TLSNoVerify
    /\ args.flags.TLSCACert = "" /\ args.flags.TLSClientCert = "" /\ args.flags.TLSServerName = ""
    /\ args.flags.TLSClientKey # ""

ExactlyOneOfCertAndKey(c) == (c.TLSClientCert = "") # (c.TLSClientKey = "")

\* C5 is stated for parseFlags of probe and Config.Validate of pkg/prober
C5_Scope == {"probe", "prober"}

\* C5: validation rejects, with exit code 1, every configuration with
\* exactly one of -tls-client-cert and -tls-client-key; credential
\* construction is reached only with both or neither.
C5_CertAndKeyTogether ==
    (variant \in C5_Scope /\ ~args.parseError) =>
        /\ ExactlyOneOfCertAndKey(args.flags) =>
              /\ pc \in {"start", "done"}
              /\ Done => (endedAt = "parseFlags" /\ exitCode = 1)
              /\ credCalls = 0
        /\ tlsCall.called => ((tlsCall.clientCert = "") <=> (tlsCall.clientKey = ""))

\* C6: validation rejects, with exit code 1, -tls-no-verify together with
\* -tls-ca-cert or -tls-server-name; buildCredentials is never called with
\* skipVerify and a CA path or a server name.
C6_NoVerifyExcludesCAAndServerName ==
    (variant = "probe" /\ ~args.parseError) =>
        /\ (args.flags.TLSNoVerify /\ (args.flags.TLSCACert # "" \/ args.flags.TLSServerName # "")) =>
              /\ pc \in {"start", "done"}
              /\ Done => (endedAt = "parseFlags" /\ exitCode = 1)
              /\ credCalls = 0 /\ dials = 0
        /\ tlsCall.called =>
              ~(tlsCall.skipVerify /\ (tlsCall.caCerts # "" \/ tlsCall.serverName # ""))

\* rejected with -tls -tls-no-verify -tls-server-name and nothing else wrong
C6_Witness ==
    /\ variant = "probe" /\ RejectedByValidation
    /\ ~args.parseError
    /\ args.flags.Addr # "" /\ args.flags.ConnTimeout > 0 /\ args.flags.RPCTimeout > 0
    /\ args.flags.TLS /\ args.flags.TLSNoVerify
    /\ args.flags.TLSCACert = "" /\ args.flags.TLSServerName # ""
    /\ ~ExactlyOneOfCertAndKey(args.flags)

\* C7: -tls with -spiffe is rejected with exit code 1 by the validation step,
\* before the interrupt listener is started and before any credential is
\* built.
C7_TLSAndSPIFFERejectedByValidation ==
    (variant = "probe" /\ ~args.parseError /\ args.flags.TLS /\ args.flags.SPIFFE) =>
        /\ pc \in {"start", "done"}
        /\ Done => (endedAt = "parseFlags" /\ exitCode = 1)
        /\ listener = "none"
        /\ credCalls = 0

\* the validation rules as the claim lists them, in the order of the checks
C8_Rules == 1..11
C8_Violates(i, c) ==
    CASE i = 1  -> c.Addr = ""
      [] i = 2  -> c.ConnTimeout <= 0
      [] i = 3  -> c.RPCTimeout <= 0
      [] i = 4  -> ~c.TLS /\ c.TLSNoVerify
      [] i = 5  -> ~c.TLS /\ c.TLSCACert # ""
      [] i = 6  -> ~c.TLS /\ c.TLSClientCert # ""
      [] i = 7  -> ~c.TLS /\ c.TLSServerName # ""
      [] i = 8  -> c.TLSClientCert # "" /\ c.TLSClientKey = ""
      [] i = 9  -> c.TLSClientKey # "" /\ c.TLSClientCert = ""
      [] i = 10 -> c.TLSNoVerify /\ c.TLSCACert # ""
      [] i = 11 -> c.TLSNoVerify /\ c.TLSServerName # ""

\* the message that names each rule
C8_RuleMessage(i) ==
    CASE i = 1  -> "-addr not specified"
      [] i = 2  -> "-connect-timeout must be greater than zero (specified: %v)"
      [] i = 3  -> "-rpc-timeout must be greater than zero (specified: %v)"
      [] i = 4  -> "specified -tls-no-verify without specifying -tls"
      [] i = 5  -> "specified -tls-ca-cert without specifying -tls"
      [] i = 6  -> "specified -tls-client-cert without specifying -tls"
      [] i = 7  -> "specified -tls-server-name without specifying -tls"
      [] i = 8  -> "specified -tls-client-cert without specifying -tls-client-key"
      [] i = 9  -> "specified -tls-client-key without specifying -tls-client-cert"
      [] i = 10 -> "cannot specify -tls-ca-cert with -tls-no-verify (CA cert would not be used)"
      [] i = 11 -> "cannot specify -tls-server-name with -tls-no-verify (server name would not be used)"

\* the first violated rule, 0 if none is
C8_FirstViolated(c) ==
    IF \E i \in C8_Rules : C8_Violates(i, c)
    THEN CHOOSE i \in C8_Rules : C8_Violates(i, c) /\ \A j \in 1..(i - 1) : ~C8_Violates(j, c)
    ELSE 0

\* C8 is stated for parseFlags of probe and init of main.go
C8_Scope == {"probe", "main"}

C9_ConstructionFails(call) ==
    \/ call.clientCert # "" /\ call.clientKey # "" /\ ~call.fs.keyPairLoads
    \/ call.caCerts # "" /\ (~call.fs.caReadable \/ ~call.fs.caParses)

\* C9: with -tls, when credential construction fails, probe ends with exit
\* code 1 and makes no connection attempt and no RPC.
C9_CredentialFailureExitsOne ==
    (variant = "probe" /\ tlsCall.called /\ C9_ConstructionFails(tlsCall)) =>
        /\ Done /\ endedAt = "buildCredentials"
        /\ exitCode = 1
        /\ creds = "none"
        /\ dials = 0 /\ conn = "none" /\ rpcs = 0

\* probe ended because the CA file was read but held no certificate
C9_Witness ==
    /\ variant = "probe" /\ Done /\ tlsCall.called
    /\ tlsCall.caCerts # "" /\ tlsCall.fs.caReadable /\ ~tlsCall.fs.caParses
    /\ tlsCall.clientCert # "" /\ tlsCall.fs.keyPairLoads

\* the identity document could not be obtained from the workload endpoint
C10_IdentityFails(call, verbose) ==
    \/ call.cancelled
    \/ ~call.w.source
    \/ verbose /\ ~call.w.svid

\* C10: with -spiffe, every failure to obtain the identity document ends the
\* run with exit code 20, never 1, and no connection attempt is made.
C10_SPIFFEFailureExits20 ==
    (variant = "probe" /\ spiffeCall.called /\ C10_IdentityFails(spiffeCall, fl.Verbose)) =>
        /\ Done
        /\ exitCode = 20
        /\ dials = 0

----------------------------------------------------------------------------
(* Connect phase *)

\* the connect phase is over
Dialled == dials = 1 /\ pc # "dialing"

\* C11 and C12 are stated for Connect of internal/probe and the connect
\* phase of probe
C11_Scope == {"internal", "probe"}

C12_GenericConnectError ==
    (variant \in C11_Scope /\ Dialled) =>
        /\ dialCtxErr = Canceled => dialErr = Canceled
        /\ dialErr \notin {"ready", DeadlineExceeded} =>
              /\ Done /\ endedAt = "dial"
              /\ msg = Msg("error: failed to connect service at %q: %+v", args.flags.Addr, 0)
              /\ variant = "probe" => exitCode = 2
              /\ variant = "internal" => errKind = "error"
              /\ conn = "none" /\ rpcs = 0

\* probe ended on an interrupt that came while the dial was pending and
\* before the connect timeout expired
C12_Witness ==
    /\ variant = "probe" /\ Done /\ endedAt = "dial"
    /\ dialErr = Canceled
    /\ now > dialStart /\ now < dialExpiry

\* C13 is stated for probe, main of main.go and main of part_009
C13_Scope == {"probe", "main", "part_009"}

\* C13: a connection that was established is closed before the process
\* returns, on every exit path: no run ends with the connection open.
C13_ConnectionClosedOnExit ==
    (variant \in C13_Scope /\ Done) => conn # "open"

----------------------------------------------------------------------------
(* Order of the phases *)

PhaseOrder == <<"validate", "creds", "connect", "rpc", "classify">>

IsPrefix(s, t) == Len(s) <= Len(t) /\ s = SubSeq(t, 1, Len(s))

\* the number of phases a run has gone through when it ends at a step
C14_PhasesAt(at) ==
    CASE at \in {"parseFlags", "tls+spiffe"}     -> 1
      [] at \in {"buildCredentials", "spiffe"}   -> 2
      [] at = "dial"                             -> 3
      [] at = "check"                            -> 5

\* the exit codes of the failures detected at a step
C14_CodesAt(at) ==
    CASE at \in {"parseFlags", "tls+spiffe", "buildCredentials"} -> {StatusInvalidArguments}
      [] at = "spiffe"                           -> {StatusSpiffeFailed, FatalExit}
      [] at = "dial"                             -> {StatusConnectionFailure}
      [] at = "check"                            -> {StatusRPCFailure, StatusUnhealthy}

\* C14 is stated for probe and for Check of pkg
C14_Scope == {"probe", "pkg"}

\* C14: the phases run in the order validation, credential construction,
\* connect, Check RPC, classification; connect and the RPC are attempted at
\* most once; the RPC is issued only on an established connection; a run
\* that fails ends in the phase of the failure, with that failure's exit
\* code, and only a run through all five phases ends with 0.
C14_PhasesInOrder ==
    variant \in C14_Scope =>
        /\ IsPrefix(phases, PhaseOrder)
        /\ dials <= 1 /\ rpcs <= 1
        /\ rpcs = 1 => (dialErr = "ready" /\ conn # "none")
        /\ Done =>
              /\ Len(phases) = C14_PhasesAt(endedAt)
              /\ exitCode \in C14_CodesAt(endedAt) \cup (IF endedAt = "check" THEN {0} ELSE {})
              /\ exitCode = 0 <=> (endedAt = "check" /\ reply.err = NoError /\ reply.status = "SERVING")
              /\ endedAt # "check" => reply = NoReply
              /\ endedAt \notin {"dial", "check"} => dials = 0

\* Check of pkg ended in the connect phase: four phases never ran
C14_Witness ==
    /\ variant = "pkg" /\ Done /\ endedAt = "dial"
    /\ phases = <<"validate", "creds", "connect">>
    /\ dialErr = "connection error"
    /\ rpcs = 0

----------------------------------------------------------------------------
(* Timeouts *)

\* C15 is stated for the call of probe and for Check of internal/probe
C15_Scope == {"probe", "internal"}

\* C15: the context of the Check call is bounded by the rpc timeout and
\* derived from the shared context, so a pending call is ended by an
\* interrupt or by the expiry of the rpc timeout: a run that has issued the
\* call ends, and with a silent server and no interrupt it ends with the
\* rpc timeout line (exit code 3).
C15_CallEnds ==
    /\ [](variant \in C15_Scope /\ pc = "calling" =>
              /\ rpcDeadline
              /\ rpcExpiry = rpcStart + fl.RPCTimeout)
    /\ [](variant \in C15_Scope /\ Done /\ endedAt = "check" /\ ~serverReplies /\ ~ctxCancelled =>
              /\ msg = Msg("timeout: health rpc did not complete within %v", "", fl.RPCTimeout)
              /\ variant = "probe" => exitCode = 3)
    /\ ((variant \in C15_Scope /\ pc = "calling") ~> Done)

\* C16 is stated for probe and for checker.Check of pkg/prober
C16_Scope == {"probe", "prober"}

\* C16: the timeouts are local to their phase: the rpc timeout runs from
\* the making of the call's context, after the connection is established,
\* and is the whole configured duration whatever the connect took; the call
\* times out only at that deadline, and the expiry of the connect timeout
\* during the call does not end it.
C16_TimeoutsLocal ==
    (variant \in C16_Scope /\ rpcs = 1) =>
        /\ rpcStart >= connectedAt /\ connectedAt >= dialStart
        /\ rpcDeadline => rpcExpiry = rpcStart + fl.RPCTimeout
        /\ rpcCtxErr = DeadlineExceeded => now >= rpcStart + fl.RPCTimeout
        /\ (pc = "calling" /\ ~ctxCancelled /\ now < rpcStart + fl.RPCTimeout) => rpcCtxErr = ""

\* checker.Check ended healthy after a connect that took time, the call
\* returning when the deadline of the connect phase had passed
C16_Witness ==
    /\ variant = "prober" /\ Done /\ endedAt = "check"
    /\ reply.err = NoError /\ reply.status = "SERVING"
    /\ connectedAt > dialStart
    /\ now >= dialExpiry
    /\ rpcDeadline /\ now < rpcExpiry

----------------------------------------------------------------------------
(* Classification of the call's result *)

\* the run ended with the result of the call
Called == Done /\ endedAt = "check"

\* C17 to C20 are stated for Check of internal/probe and the
\* classification of probe
C17_Scope == {"internal", "probe"}

\* C17: a call failing with Unimplemented ends in the rpc failure category
\* (exit code 3) with the fixed line "error: this server does not implement
\* the grpc health protocol (grpc.health.v1.Health)", whatever message the
\* server put in the status.
C17_UnimplementedFixedLine ==
    (variant \in C17_Scope /\ Called /\ reply.err = "Unimplemented") =>
        /\ msg = Msg("error: this server does not implement the grpc health protocol (grpc.health.v1.Health)", "", 0)
        /\ variant = "probe" => exitCode = 3
        /\ variant = "internal" => errKind = "error"

\* C18: a call failing with DeadlineExceeded ends in the rpc failure
\* category (exit code 3) with the line "timeout: health rpc did not
\* complete within <rpc-timeout>" carrying the configured rpc timeout;
\* never as a connection failure, never as unhealthy.
C18_DeadlineExceededLine ==
    (variant \in C17_Scope /\ Called /\ reply.err = "DeadlineExceeded") =>
        /\ msg = Msg("timeout: health rpc did not complete within %v", "", args.flags.RPCTimeout)
        /\ variant = "probe" => exitCode = 3
        /\ variant = "internal" => errKind = "error"

\* Check ended because the rpc timeout expired on a silent server
C18_Witness ==
    /\ variant = "internal" /\ Called
    /\ reply.err = "DeadlineExceeded"
    /\ ~serverReplies /\ ~ctxCancelled
    /\ fl.RPCTimeout = MaxDuration /\ now = rpcStart + MaxDuration

\* C19: a call failing with any other error, a gRPC status or not, ends in
\* the rpc failure category (exit code 3) with the line "error: health rpc
\* failed: <cause>"; no error of the call is classified as unhealthy,
\* whatever status the failed reply carries.
C19_OtherErrorsLine ==
    (variant \in C17_Scope /\ Called /\ reply.err # NoError) =>
        /\ reply.err \notin {"Unimplemented", "DeadlineExceeded"} =>
               msg = Msg("error: health rpc failed: %+v", reply.err, 0)
        /\ variant = "probe" => exitCode = 3
        /\ variant = "internal" => errKind = "error"
        /\ msg.fmt # "service unhealthy (responded with %q)"

\* Check ended on an error that is no gRPC status, the reply not SERVING
C19_Witness ==
    /\ variant = "internal" /\ Called
    /\ reply.err = "NotStatus" /\ reply.status = "UNKNOWN"

\* C20: a call returning without error a status other than SERVING ends in
\* the unhealthy category (exit code 4, a ServingStatusError from Check) with
\* a line quoting the status reported; never 3, never 0.
C20_NotServingIsUnhealthy ==
    (variant \in C17_Scope /\ Called /\ reply.err = NoError /\ reply.status # "SERVING") =>
        /\ msg = Msg("service unhealthy (responded with %q)", reply.status, 0)
        /\ variant = "probe" => exitCode = 4
        /\ variant = "internal" => errKind = "ServingStatusError"

\* Check ended on a reply SERVICE_UNKNOWN
C20_Witness ==
    /\ variant = "internal" /\ Called
    /\ reply.err = NoError /\ reply.status = "SERVICE_UNKNOWN"

\* the call succeeded: exit code 0 from probe, a nil error from Check
Succeeded ==
    /\ Called
    /\ variant = "probe" => exitCode = 0
    /\ variant = "internal" => errKind = "nil"

\* C21 is stated for probe and for Check of internal/probe
C21_Scope == {"internal", "probe"}

\* C21: the single Check request carries exactly the configured service
\* name, the empty name when -service is absent; against a server that is
\* SERVING for one name only, the call succeeds for that name and fails for
\* every other name.
C21_ServiceNamePassed ==
    (variant \in C21_Scope /\ rpcs = 1) =>
        /\ request.service = args.flags.Service
        /\ (Called /\ serves # "*") =>
               /\ args.flags.Service # serves => ~Succeeded
               /\ (args.flags.Service = serves /\ rpcCtxErr = "") => Succeeded

\* probe asked a server that is SERVING for myService only about myService
\* and ended 0
C21_Witness ==
    /\ variant = "probe" /\ Called
    /\ serves = "myService" /\ args.flags.Service = "myService"
    /\ request.service = "myService"
    /\ exitCode = 0

\* the key and the value a well-formed -rpc-header value stands for
KeyOf(h) == SplitN2(h, ":")[1]
ValueOf(h) == TrimLeftSpace(SplitN2(h, ":")[2])

\* the values given for key k on the command line, in the order given
ValuesGiven(hs, k) ==
    LET given == SelectSeq(hs, LAMBDA h : KeyOf(h) = k)
    IN  [i \in 1..Len(given) |-> ValueOf(given[i])]

\* the multimap of a command line: each key given, with the values given for it
Multimap(hs) == [k \in {KeyOf(hs[i]) : i \in 1..Len(hs)} |-> ValuesGiven(hs, k)]

Reverse(hs) == [i \in 1..Len(hs) |-> hs[Len(hs) + 1 - i]]

C23_Scope == {"probe", "main", "part_009"}

\* C23: a step of the interrupt listener only cancels the shared context;
\* it sets no exit code, does not end the process and leaves the connection
\* alone, so the exit code always comes from the main flow.
C23_ListenerOnlyCancels ==
    [][(variant \in C23_Scope /\ listener \in {"waiting", "exiting"} /\ listener' # listener) =>
           (ctxCancelled' /\ UNCHANGED <<pc, exitCode, endedAt, msg, conn>>)]_vars

\* h holds the separator
HasSeparator(h) == \E i \in 1..Len(h) : SubSeq(h, i, i) = ":"

\* n characters of white space
RECURSIVE Spaces(_)
Spaces(n) == IF n = 0 THEN "" ELSE " " \o Spaces(n - 1)

\* the text of h before its first ':': a start of h that holds no ':' and
\* is followed by one
C24_Key(h) ==
    CHOOSE k \in {SubSeq(h, 1, n) : n \in 0..Len(h)} :
        /\ ~HasSeparator(k)
        /\ SubSeq(h, Len(k) + 1, Len(k) + 1) = ":"

\* the text of h after its first ':' without its leading white space: h is
\* the key, the ':', some white space and this text, which starts with none
C24_Value(h) ==
    CHOOSE v \in {SubSeq(h, n, Len(h)) : n \in 1..(Len(h) + 1)} :
        /\ \E n \in 0..Len(h) : h = C24_Key(h) \o ":" \o Spaces(n) \o v
        /\ Len(v) > 0 => SubSeq(v, 1, 1) # " "

\* the values the headers hs give key k, in their order
C24_Values(hs, k) ==
    LET given == SelectSeq(hs, LAMBDA h : C24_Key(h) = k)
    IN  [i \in 1..Len(given) |-> C24_Value(given[i])]

\* the map of well-formed headers hs
C24_Map(hs) == [k \in {C24_Key(hs[i]) : i \in 1..Len(hs)} |-> C24_Values(hs, k)]

\* the places of the -rpc-header values without a ':'
C24_Rejected(hs) == {i \in 1..Len(hs) : ~HasSeparator(hs[i])}

\* the first of a set of places
C24_First(places) == CHOOSE i \in places : \A j \in places : i <= j

C25_Scope == {"credentials", "probe"}

\* C25: buildCredentials works in a fixed order.  The client key pair is
\* loaded first, and its failure is an error even with skipVerify; with
\* skipVerify the CA file is never read; otherwise a CA path replaces the
\* system roots and a file that cannot be read or parsed is an error; a
\* server name overrides the name verified; on every error no credential
\* object is returned.
C25_CredentialsOrder ==
    (variant \in C25_Scope /\ tlsCall.called) =>
        LET c       == tlsCall
            pair    == c.clientCert # "" /\ c.clientKey # ""
            pairOK  == pair => c.fs.keyPairLoads
        IN  /\ ~pairOK => (~c.ok /\ c.read = {c.clientCert, c.clientKey})
            /\ pair => {c.clientCert, c.clientKey} \subseteq c.read
            /\ c.skipVerify => (c.read \subseteq {c.clientCert, c.clientKey} /\ (c.ok <=> pairOK))
            /\ (c.ok /\ c.skipVerify) => (c.cfg.InsecureSkipVerify /\ c.cfg.RootCAs = "system")
            /\ (pairOK /\ ~c.skipVerify /\ c.caCerts # "") =>
                   /\ c.caCerts \in c.read
                   /\ c.ok <=> (c.fs.caReadable /\ c.fs.caParses)
                   /\ c.ok => (c.cfg.RootCAs = c.caCerts /\ ~c.cfg.InsecureSkipVerify)
            /\ (pairOK /\ ~c.skipVerify /\ c.caCerts = "") => (c.ok /\ c.cfg.RootCAs = "system")
            /\ c.ok => c.cfg.ServerName = c.serverName
            /\ c.ok => c.cfg.Certificates = pair
            /\ c.ok <=> creds = "tls"
            /\ ~c.ok => (creds = "none" /\ Done /\ msg # NoMsg)

\* buildCredentials failed on the key pair with skipVerify set and a CA
\* path given, and did not open the CA file
C25_Witness ==
    /\ variant = "credentials" /\ tlsCall.called
    /\ tlsCall.skipVerify /\ tlsCall.caCerts # ""
    /\ tlsCall.clientCert # "" /\ tlsCall.clientKey # ""
    /\ ~tlsCall.fs.keyPairLoads
    /\ ~tlsCall.ok /\ tlsCall.caCerts \notin tlsCall.read

\* C26 is stated for probe and for Connect of internal/probe
C26_Scope == {"probe", "internal"}

\* C26: in every run that reaches the connect step the dial options hold
\* exactly one transport variant: TLS credentials exactly when -tls is set,
\* SPIFFE credentials exactly when -spiffe is set and -tls is not, the
\* insecure transport exactly when neither is set; the insecure transport
\* never goes together with a credential object.
C26_OneTransportOption ==
    (variant \in C26_Scope /\ dials >= 1) =>
        /\ Cardinality(opts \cap TransportOptions) = 1
        /\ WithTransportCredentials("tls") \in opts <=> fl.TLS
        /\ WithTransportCredentials("spiffe") \in opts <=> (fl.SPIFFE /\ ~fl.TLS)
        /\ WithInsecure \in opts <=> (~fl.TLS /\ ~fl.SPIFFE)
        /\ WithInsecure \in opts => (opts = {WithInsecure} /\ creds = "insecure")
        /\ variant = "probe" => ~(fl.TLS /\ fl.SPIFFE)

\* probe dialled with the SPIFFE credentials as its only transport option
C26_Witness ==
    /\ variant = "probe" /\ dials = 1
    /\ fl.SPIFFE /\ ~fl.TLS
    /\ opts = {WithTransportCredentials("spiffe")}

\* C27 is stated for probe, main of part_009 and main over pkg Check
C27_Scope == {"probe", "part_009", "pkg"}

\* C27: an interrupt never makes a run end with exit code 0: a run ends 0
\* only after a SERVING reply was received, and a run whose connect or call
\* was cut short by the cancellation ends with a non-zero exit code.
C27_InterruptNeverExitsZero ==
    (variant \in C27_Scope /\ Done) =>
        /\ exitCode = 0 => (reply.err = NoError /\ reply.status = "SERVING")
        /\ (ctxCancelled /\ reply.err # NoError) => exitCode # 0

\* C28: in probe a cancellation is attributed to the phase pending when it
\* takes effect.  Taking effect on the connect it ends the run with exit
\* code 2 and the generic connect line; taking effect after the connection
\* was made and before the reply, with exit code 3 and the generic "health
\* rpc failed" line, not the timeout line; after the reply it changes nothing.
C28_CancellationByPhase ==
    variant = "probe" =>
        /\ (Done /\ endedAt = "dial" /\ dialCtxErr = Canceled) =>
               /\ exitCode = 2
               /\ msg = Msg("error: failed to connect service at %q: %+v", args.flags.Addr, 0)
               /\ rpcs = 0
        /\ (Called /\ rpcCtxErr = Canceled) =>
               /\ conn = "closed"
               /\ reply.err = "Canceled"
               /\ exitCode = 3
               /\ msg = Msg("error: health rpc failed: %+v", "Canceled", 0)
        /\ (Called /\ rpcCtxErr = "") =>
               /\ exitCode = classify(variant, reply, fl.RPCTimeout).code
               /\ msg = classify(variant, reply, fl.RPCTimeout).msg
               /\ reply \in ServerResults \cup RPCResults("", TRUE, serves, request.service)

\* probe ended on an interrupt that came while the call was pending, after
\* time had passed in it
C28_Witness ==
    /\ variant = "probe" /\ Called
    /\ rpcCtxErr = Canceled /\ dialErr = "ready"
    /\ now > rpcStart
    /\ exitCode = 3

\* the flags of the run that differs in -v alone
C29_OtherVerbosity(f) == [f EXCEPT !.Verbose = ~f.Verbose]

\* C29: -v only adds log output.  The run of probe that differs in -v alone,
\* in the same environment, takes every decision as this run does: the same
\* result of parseFlags, the same outcome of the credential phase against
\* the same workload endpoint, the same request, the same classification.
C29_VerboseOnlyLogs ==
    variant = "probe" =>
        /\ parseFlags([args EXCEPT !.flags = C29_OtherVerbosity(args.flags)]) = parseFlags(args)
        /\ spiffeCall.called =>
               spiffeExit(C29_OtherVerbosity(fl).Verbose, spiffeCall.cancelled, spiffeCall.w)
                   = spiffeExit(fl.Verbose, spiffeCall.cancelled, spiffeCall.w)
        /\ rpcs = 1 => request.service = requestService(C29_OtherVerbosity(fl))
        /\ Called => classify(variant, reply, C29_OtherVerbosity(fl).RPCTimeout).code = exitCode

\* the flag state a command line alone gives
C30_OwnFlags(a) == [a.flags EXCEPT !.RPCHeaders = SetAll(EmptyMD, a.headers).md]

\* C30: successive calls of probe in one process are independent.  After
\* parseFlags the flag state is that of the call's own arguments, whatever
\* an earlier call left in it: its -service, -rpc-header and other options
\* are gone, the request carries the call's own service name and headers,
\* and parseFlags accepts or rejects the call on its own arguments.
C30_CallsIndependent ==
    (variant = "probe" /\ pc # "start") =>
        /\ fl = C30_OwnFlags(args)
        /\ (Done /\ endedAt = "parseFlags") <=> parseFlags(args) # NoMsg
        /\ rpcs = 1 =>
               request = [service |-> args.flags.Service, md |-> SetAll(EmptyMD, args.headers).md]
        /\ (Called /\ serves # "*" /\ rpcCtxErr = "") => (exitCode = 0 <=> args.flags.Service = serves)

\* a second call without -service and -rpc-header, after a call with both,
\* sent a request with neither
C30_Witness ==
    /\ variant = "probe" /\ calls = 2 /\ rpcs = 1
    /\ flBefore.Service = "myService" /\ flBefore.RPCHeaders # EmptyMD
    /\ args.flags.Service = "" /\ args.headers = <<>>
    /\ request = NoRequest

====
